---- MODULE Spec2Model ----
(***************************************************************************)
(* A model of mscbot: the FCP (final comment period) state machine of      *)
(* command_handler.py, the timers of fcp_timers.py and the event filter of *)
(* webhook.py.                                                             *)
(*                                                                         *)
(* Text is modelled as a sequence of tokens: a string is Seq(Token), a     *)
(* comment body is a sequence of lines (the "\n" separators are the line   *)
(* boundaries).  A token stands for a run of characters that the regular   *)
(* expressions and prefix tests of the code never split; " " is the single *)
(* blank.                                                                  *)
(***************************************************************************)
EXTENDS Naturals, Integers, Sequences, FiniteSets, TLC

VARIABLES
    labels,      \* [Proposals -> Seq(label)]: the label list GitHub holds for the issue
    comments,    \* [Proposals -> Seq([user, body])]: the issue's comments that are or were status comments
    issueState,  \* [Proposals -> {"open", "closed"}]
    jobs,        \* BackgroundScheduler: the set of pending jobs [id, num, run_time]
    timers,      \* FCPTimers.timers: proposal number -> job id
    store,       \* table fcp_timers: proposal number -> end_timestamp
    now,         \* wall clock, in seconds
    roster,      \* config.github_team.get_members(): the team's logins, in order
    ev,          \* the last event: what was delivered (kind, num, sender, body, id),
                 \* the label list it started from (original) and ended with in
                 \* memory (final), the calls it made and the exception it raised
    handler,     \* the fields of the one CommandHandler every thread works on:
                 \* proposal, proposal_labels_str and the sender of comment
    threads,     \* the threads of waitress and of the scheduler: where each is
                 \* in the event it handles (pc) and its local variables
    codec,       \* a run of the status comment codec: what is formatted (members,
                 \* voted, concerns), the text, and what is parsed from the text
    parser       \* a run of the command parser: the text, and whether it raised
                 \* or else the commands it returned

vars == <<labels, comments, issueState, jobs, timers, store, now, roster, ev, handler, threads, codec, parser>>

----------------------------------------------------------------------------
(* Bounds of the model *)

MaxDocs == 1        \* status comments ever posted on one proposal
MaxCycleDocs == 2   \* the same, in the runs over two proposal cycles
MaxJobs == 2        \* jobs pending in the scheduler at one time
MaxTime == 100000   \* the clock stops advancing here
MaxClock == 7       \* the clock of the scheduler runs stops advancing here
MaxConcerns == 2    \* the longest list of concerns of the codec runs
MaxLines == 2       \* the longest comment text of the parser runs, in lines

----------------------------------------------------------------------------
(* Configuration (config.py, mscbot.py) *)

Bot == <<"mscbot">>
Alice == <<"alice">>
Bob == <<"bob">>
Carol == <<"carol">>
Dave == <<"dave">>
Eve == <<"eve">>

RatioNum == 3
RatioDen == 4

FcpTimeDays == 1
DaySeconds == 86400
GraceSeconds == 10
MisfireGraceSeconds == 1

Proposals == {42}

ProposalLabel == "proposal"
FcpLabel == "fcp"
FcpProposedLabel == "fcp-proposed"
FcpFinishedLabel == "fcp-finished"
DispositionMergeLabel == "disposition-merge"
DispositionPostponeLabel == "disposition-postpone"
DispositionCloseLabel == "disposition-close"
UnresolvedConcernsLabel == "unresolved-concerns"
InReviewLabel == "proposal-in-review"

DispositionLabels == {DispositionMergeLabel, DispositionPostponeLabel, DispositionCloseLabel}

----------------------------------------------------------------------------
(* Python list and string helpers *)

Range(s) == {s[i] : i \in 1..Len(s)}

In(x, s) == \E i \in 1..Len(s) : s[i] = x

\* list.remove(x): drops the first occurrence
RECURSIVE Remove(_, _)
Remove(s, x) ==
    IF s = <<>> THEN <<>>
    ELSE IF Head(s) = x THEN Tail(s)
    ELSE <<Head(s)>> \o Remove(Tail(s), x)

\* "if x in s: s.remove(x)"
RemoveIfPresent(s, x) == IF In(x, s) THEN Remove(s, x) ELSE s

\* the elements of a finite set, in some order
RECURSIVE SetToSeq(_)
SetToSeq(S) ==
    IF S = {} THEN <<>>
    ELSE LET x == CHOOSE x \in S : TRUE IN <<x>> \o SetToSeq(S \ {x})

StartsWith(s, p) == Len(s) >= Len(p) /\ SubSeq(s, 1, Len(p)) = p

\* str.split(): the whitespace-delimited words of a line, none of them empty
RECURSIVE SplitFrom(_, _, _)
SplitFrom(line, cur, acc) ==
    IF line = <<>> THEN (IF cur = <<>> THEN acc ELSE Append(acc, cur))
    ELSE IF Head(line) = " "
         THEN SplitFrom(Tail(line), <<>>, IF cur = <<>> THEN acc ELSE Append(acc, cur))
         ELSE SplitFrom(Tail(line), Append(cur, Head(line)), acc)

Split(line) == SplitFrom(line, <<>>, <<>>)

\* " ".join(words)
RECURSIVE Join(_)
Join(words) ==
    IF words = <<>> THEN <<>>
    ELSE IF Len(words) = 1 THEN words[1]
    ELSE words[1] \o <<" ">> \o Join(Tail(words))

\* str.lower() on the tokens whose case the code looks at
LowerTok(t) ==
    CASE t = "Concerns:" -> "concerns:"
      [] t = "CONCERNS:" -> "concerns:"
      [] t = "[X]" -> "[x]"
      [] OTHER -> t

\* jinja2 autoescape: markupsafe.escape on every rendered value
EscapeTok(t) ==
    CASE t = "<" -> "&lt;"
      [] t = ">" -> "&gt;"
      [] t = "&" -> "&amp;"
      [] OTHER -> t

Escape(s) == [i \in 1..Len(s) |-> EscapeTok(s[i])]

----------------------------------------------------------------------------
(* Status comment codec *)

Bullets == {"*", "|", "-"}

\* team_vote_regex = ^[*|-] \[x\] @(.+)$ with re.IGNORECASE
VoteMatch(line) ==
    /\ Len(line) >= 6
    /\ line[1] \in Bullets
    /\ line[2] = " "
    /\ LowerTok(line[3]) = "[x]"
    /\ line[4] = " "
    /\ line[5] = "@"

VoteMember(line) == SubSeq(line, 6, Len(line))

RECURSIVE ParseTeamVotes(_)
ParseTeamVotes(body) ==
    IF body = <<>> THEN <<>>
    ELSE IF VoteMatch(Head(body))
         THEN <<VoteMember(Head(body))>> \o ParseTeamVotes(Tail(body))
         ELSE ParseTeamVotes(Tail(body))

\* resolved_concern_regex = ^[*|-] ~~(.+)~~.* : the greedy group ends at the last ~~
ResolvedEnds(line) == {k \in 5..Len(line) : line[k] = "~~"}

ResolvedMatch(line) ==
    /\ Len(line) >= 5
    /\ line[1] \in Bullets
    /\ line[2] = " "
    /\ line[3] = "~~"
    /\ ResolvedEnds(line) # {}

ResolvedText(line) ==
    LET k == CHOOSE k \in ResolvedEnds(line) : \A j \in ResolvedEnds(line) : j <= k
    IN  SubSeq(line, 4, k - 1)

IsConcernsHeader(line) == line # <<>> /\ LowerTok(line[1]) = "concerns:"

IsBulletLine(line) == StartsWith(line, <<"*", " ">>) \/ StartsWith(line, <<"-", " ">>)

IsStruckLine(line) == StartsWith(line, <<"*", " ", "~~">>) \/ StartsWith(line, <<"-", " ", "~~">>)

RECURSIVE ParseConcernsFrom(_, _)
ParseConcernsFrom(body, past) ==
    IF body = <<>> THEN <<>>
    ELSE LET line == Head(body)
             past2 == past \/ IsConcernsHeader(line)
             rest == ParseConcernsFrom(Tail(body), past2)
         IN  IF ~past2 THEN rest
             ELSE IF ~IsBulletLine(line) THEN rest
             ELSE IF IsStruckLine(line)
                  THEN IF ResolvedMatch(line)
                       THEN <<<<ResolvedText(line), TRUE>>>> \o rest
                       ELSE rest
                  ELSE <<<<SubSeq(line, 3, Len(line)), FALSE>>>> \o rest

ParseConcerns(body) == ParseConcernsFrom(body, FALSE)

\* one line per current team member, in roster order
FormatTeamVotes(members, voted) ==
    [i \in 1..Len(members) |->
        IF In(members[i], voted)
        THEN <<"-", " ", "[x]", " ", "@">> \o members[i]
        ELSE <<"-", " ", "[ ]", " ", "@">> \o members[i]]

SelectSeq2(s, flag) == SelectSeq(s, LAMBDA c : c[2] = flag)

\* concerns.sort(key=lambda x: x[1], reverse=True): a stable sort, True before False
SortConcerns(concerns) == SelectSeq2(concerns, TRUE) \o SelectSeq2(concerns, FALSE)

ConcernLine(c) ==
    IF c[2] THEN <<"*", " ", "~~">> \o c[1] \o <<"~~">>
    ELSE <<"*", " ">> \o c[1]

FormatConcerns(concerns) ==
    IF concerns = <<>> THEN <<>>
    ELSE LET sorted == SortConcerns(concerns)
         IN  <<<<"Concerns:">>, <<>>>> \o [i \in 1..Len(sorted) |-> ConcernLine(sorted[i])]

Preamble == <<"Team", " ", "member", " ", "@">>

EscapeLines(ls) == [i \in 1..Len(ls) |-> Escape(ls[i])]

\* the proposal template: the preamble sentence, the vote list, the concerns
RenderTemplate(author, disposition, team_votes, concerns) ==
    <<Preamble \o Escape(author) \o <<" ", "has", " ", "proposed", " ", "to", " ">> \o Escape(disposition)>>
    \o <<<<>>>> \o EscapeLines(team_votes) \o <<<<>>>> \o EscapeLines(concerns)

BodyStartsWith(body, prefix) == body # <<>> /\ StartsWith(body[1], prefix)

----------------------------------------------------------------------------
(* The objects one event works on.  A context c holds CommandHandler's   *)
(* fields (num, sender, labels), the GitHub issue it talks to (comments,   *)
(* issueState), FCPTimers (jobs, timers, store), the clock, the calls made *)
(* so far and the exception that is propagating, if any.                   *)

NoCall == [op |-> "", body |-> <<>>, id |-> 0, time |-> 0, list |-> <<>>]

Call(c, call) == [c EXCEPT !.calls = Append(@, call)]

Raise(c, exc) == [c EXCEPT !.raised = exc]

Ok(c) == c.raised = "none"

None == [some |-> FALSE, val |-> <<>>]
Some(x) == [some |-> TRUE, val |-> x]

Msg(text) == <<<<text>>>>

\* Issue.create_comment.  Only a comment whose body starts with the status
\* preamble can ever be picked by _get_status_comment: the others are kept
\* in the call log alone.
PostCommentLinked(c, body, link, time) ==
    LET c1 == Call(c, [NoCall EXCEPT !.op = "create_comment", !.body = body,
                                     !.id = link, !.time = time])
    IN  IF BodyStartsWith(body, Preamble)
        THEN [c1 EXCEPT !.comments = Append(@, [user |-> Bot, body |-> body])]
        ELSE c1

PostComment(c, body) == PostCommentLinked(c, body, 0, 0)

\* IssueComment.edit: the comment object then holds the new body
EditComment(c, id, body) ==
    [Call(c, [NoCall EXCEPT !.op = "edit_comment", !.id = id, !.body = body])
        EXCEPT !.comments[id].body = body]

IsStatusComment(cm) == BodyStartsWith(cm.body, Preamble) /\ cm.user = Bot

\* the latest status comment, 0 for None
StatusCommentOf(cs) ==
    LET live == {i \in 1..Len(cs) : IsStatusComment(cs[i])}
    IN  IF live = {} THEN 0 ELSE CHOOSE i \in live : \A j \in live : j <= i

GetStatusComment(c) == StatusCommentOf(c.comments)

DispositionOfLabel(l) ==
    CASE l = DispositionMergeLabel -> <<"merge">>
      [] l = DispositionCloseLabel -> <<"close">>
      [] l = DispositionPostponeLabel -> <<"postpone">>
      [] OTHER -> <<>>

\* the disposition of the first disposition label of the list, <<>> for None
RECURSIVE DispositionOf(_)
DispositionOf(ls) ==
    IF ls = <<>> THEN <<>>
    ELSE IF Head(ls) \in DispositionLabels THEN DispositionOfLabel(Head(ls))
    ELSE DispositionOf(Tail(ls))

GetDisposition(c) == DispositionOf(c.labels)

\* str(None) in the rendered template
DispositionText(d) == IF d = <<>> THEN <<"None">> ELSE d

PostOrUpdateStatusComment(c, voted_members, concerns, disposition, existing, text_to_prepend) ==
    IF (~voted_members.some \/ ~concerns.some \/ ~disposition.some) /\ existing = 0
    THEN c
    ELSE LET voted == IF voted_members.some THEN voted_members.val
                      ELSE ParseTeamVotes(c.comments[existing].body)
             concs == IF concerns.some THEN concerns.val
                      ELSE ParseConcerns(c.comments[existing].body)
             disp == IF disposition.some THEN disposition.val ELSE GetDisposition(c)
             author == IF existing # 0 THEN c.comments[existing].user ELSE c.sender
             text == RenderTemplate(author, DispositionText(disp),
                                    FormatTeamVotes(c.roster, voted), FormatConcerns(concs))
             full == IF text_to_prepend.some THEN text_to_prepend.val \o text ELSE text
         IN  IF existing # 0 THEN EditComment(c, existing, full) ELSE PostComment(c, full)

----------------------------------------------------------------------------
(* FCPTimers *)

FreeJobId(c) ==
    LET used == {j.id : j \in c.jobs} \cup {c.timers[n] : n \in DOMAIN c.timers}
    IN  CHOOSE i \in 1..(Cardinality(used) + 1) : i \notin used

Put(f, k, v) == [x \in DOMAIN f \cup {k} |-> IF x = k THEN v ELSE f[x]]

Drop(f, k) == [x \in DOMAIN f \ {k} |-> f[x]]

\* the upsert whose update overwrites the row with the new time
DbSaveTimerOverwrites(c, timestamp, num) ==
    [Call(c, [NoCall EXCEPT !.op = "db_save", !.id = num, !.time = timestamp])
        EXCEPT !.store = Put(@, num, timestamp)]

\* _db_save_timer: INSERT (num, timestamp) ON CONFLICT (num) DO UPDATE
\* SET end_timestamp = <3rd value> WHERE proposal_num = <4th value>; the values
\* passed are (num, timestamp, num, timestamp), so that on a conflict the row
\* is updated only if its num equals the timestamp, and then to num
DbSaveTimer(c, timestamp, num) ==
    [Call(c, [NoCall EXCEPT !.op = "db_save", !.id = num, !.time = timestamp])
        EXCEPT !.store = IF num \notin DOMAIN @ THEN Put(@, num, timestamp)
                         ELSE IF num = timestamp THEN Put(@, num, num)
                         ELSE @]

\* _db_delete_timer
DbDeleteTimer(c, num) ==
    [Call(c, [NoCall EXCEPT !.op = "db_delete", !.id = num])
        EXCEPT !.store = Drop(@, num)]

NewTimer(c, run_time, num, save) ==
    LET id == FreeJobId(c)
        c1 == [Call(c, [NoCall EXCEPT !.op = "add_job", !.id = num, !.time = run_time])
                  EXCEPT !.jobs = @ \cup {[id |-> id, num |-> num, run_time |-> run_time]},
                         !.timers = Put(@, num, id)]
    IN  IF save THEN DbSaveTimer(c1, run_time, num) ELSE c1

CancelTimerForProposalNum(c, num) ==
    IF num \notin DOMAIN c.timers
    THEN Raise(c, "ProposalNotInFCP")
    ELSE LET id == c.timers[num]
         IN  DbDeleteTimer([c EXCEPT !.jobs = {j \in @ : j.id # id},
                                     !.timers = Drop(@, num)], num)

\* _db_load_timers: every row is scheduled again and not saved again
RECURSIVE LoadRows(_, _)
LoadRows(c, nums) ==
    IF nums = <<>> THEN c
    ELSE LoadRows(NewTimer(c, c.store[Head(nums)], Head(nums), FALSE), Tail(nums))

DbLoadTimers(c) == LoadRows(c, SetToSeq(DOMAIN c.store))

\* FCPTimers.__init__ in a new process: a new scheduler, no timers, the rows
\* of the database loaded
StartTimers(c) == DbLoadTimers([c EXCEPT !.jobs = {}, !.timers = <<>>])

----------------------------------------------------------------------------
(* CommandHandler: the commands *)

LabelsAdd(c, l) == [c EXCEPT !.labels = Append(@, l)]

LabelsRemoveIfPresent(c, l) == [c EXCEPT !.labels = RemoveIfPresent(@, l)]

CancelNotice == <<<<"**This FCP proposal has been cancelled by", " ", "link", ".**">>, <<>>>>

\* the conclusion time without the grace period
StartFcpNoGrace(c) ==
    LET fcp_conclusion_time == c.now + FcpTimeDays * DaySeconds
        c1 == NewTimer(c, fcp_conclusion_time, c.num, TRUE)
        status == GetStatusComment(c1)
    IN  IF status = 0 THEN Raise(c1, "AttributeError")
        ELSE LET c3 == PostCommentLinked(c1, Msg("This is now entering its final comment period"),
                                         status, fcp_conclusion_time)
                 c4 == LabelsAdd(c3, FcpLabel)
                 c5 == LabelsRemoveIfPresent(c4, FcpProposedLabel)
             IN  LabelsRemoveIfPresent(c5, InReviewLabel)

StartFcp(c) ==
    LET fcp_conclusion_time == c.now + FcpTimeDays * DaySeconds + GraceSeconds
        c1 == NewTimer(c, fcp_conclusion_time, c.num, TRUE)
        status == GetStatusComment(c1)
    IN  IF status = 0 THEN Raise(c1, "AttributeError")
        ELSE LET c3 == PostCommentLinked(c1, Msg("This is now entering its final comment period"),
                                         status, fcp_conclusion_time)
                 c4 == LabelsAdd(c3, FcpLabel)
                 c5 == LabelsRemoveIfPresent(c4, FcpProposedLabel)
             IN  LabelsRemoveIfPresent(c5, InReviewLabel)

\* a slip in the threshold test: the ratio itself does not suffice
ProcessStatusCommentUpdateStrict(c, body) ==
    LET num_team_votes == Len(ParseTeamVotes(body))
        num_team_members == Len(c.roster)
        unresolved == SelectSeq2(ParseConcerns(body), FALSE)
    IN  IF num_team_votes * RatioDen <= RatioNum * num_team_members THEN c
        ELSE IF unresolved # <<>> THEN c
        ELSE IF In(FcpLabel, c.labels) THEN c
        ELSE StartFcp(c)

ProcessStatusCommentUpdateWithBody(c, body) ==
    LET num_team_votes == Len(ParseTeamVotes(body))
        num_team_members == Len(c.roster)
        unresolved == SelectSeq2(ParseConcerns(body), FALSE)
    IN  IF num_team_votes * RatioDen < RatioNum * num_team_members THEN c
        ELSE IF unresolved # <<>> THEN c
        ELSE IF In(FcpLabel, c.labels) THEN c
        ELSE StartFcp(c)

DispositionLabelOf(d) ==
    CASE d = <<"merge">> -> DispositionMergeLabel
      [] d = <<"postpone">> -> DispositionPostponeLabel
      [] d = <<"close">> -> DispositionCloseLabel

\* the proposal without the test for a running FCP
FcpProposalUnchecked(c, disposition) ==
    IF In(FcpProposedLabel, c.labels)
    THEN PostComment(c, Msg("This proposal has already had a FCP proposed."))
    ELSE LET c1 == PostOrUpdateStatusComment(c, Some(<<c.sender>>), Some(<<>>),
                                             Some(disposition), 0, None)
             c2 == LabelsAdd(c1, DispositionLabelOf(disposition))
             c3 == LabelsAdd(c2, FcpProposedLabel)
             c4 == LabelsRemoveIfPresent(c3, InReviewLabel)
         IN  LabelsRemoveIfPresent(c4, FcpFinishedLabel)

\* the proposal that keeps the fcp-finished label of the cycle before
FcpProposalKeepsFinished(c, disposition) ==
    IF In(FcpLabel, c.labels)
    THEN PostComment(c, Msg("This proposal is already in FCP."))
    ELSE IF In(FcpProposedLabel, c.labels)
    THEN PostComment(c, Msg("This proposal has already had a FCP proposed."))
    ELSE LET c1 == PostOrUpdateStatusComment(c, Some(<<c.sender>>), Some(<<>>),
                                             Some(disposition), 0, None)
             c2 == LabelsAdd(c1, DispositionLabelOf(disposition))
             c3 == LabelsAdd(c2, FcpProposedLabel)
         IN  LabelsRemoveIfPresent(c3, InReviewLabel)

FcpProposalWithDisposition(c, disposition) ==
    IF In(FcpLabel, c.labels)
    THEN PostComment(c, Msg("This proposal is already in FCP."))
    ELSE IF In(FcpProposedLabel, c.labels)
    THEN PostComment(c, Msg("This proposal has already had a FCP proposed."))
    ELSE LET c1 == PostOrUpdateStatusComment(c, Some(<<c.sender>>), Some(<<>>),
                                             Some(disposition), 0, None)
             c2 == LabelsAdd(c1, DispositionLabelOf(disposition))
             c3 == LabelsAdd(c2, FcpProposedLabel)
             c4 == LabelsRemoveIfPresent(c3, InReviewLabel)
         IN  LabelsRemoveIfPresent(c4, FcpFinishedLabel)

\* the end of _cancel_fcp, common to its three branches
CancelFcpTail(c) ==
    LET c1 == LabelsRemoveIfPresent(c, DispositionCloseLabel)
        c2 == LabelsRemoveIfPresent(c1, DispositionMergeLabel)
        c3 == LabelsRemoveIfPresent(c2, DispositionPostponeLabel)
    IN  LabelsAdd(c3, InReviewLabel)

\* the cancellation that forgets the disposition labels
CancelFcpKeepsDisposition(c) ==
    IF In(FcpProposedLabel, c.labels)
    THEN LET c1 == LabelsRemoveIfPresent(c, FcpProposedLabel)
             status == GetStatusComment(c1)
         IN  LabelsAdd(PostOrUpdateStatusComment(c1, None, None, None, status,
                                                 Some(CancelNotice)), InReviewLabel)
    ELSE IF In(FcpLabel, c.labels)
    THEN LET c1 == LabelsRemoveIfPresent(c, FcpLabel)
             c2 == CancelTimerForProposalNum(c1, c1.num)
         IN  IF ~Ok(c2) THEN c2
             ELSE CancelFcpTail(PostComment(c2,
                      Msg("Final comment period for this proposal has been cancelled.")))
    ELSE CancelFcpTail(PostComment(c, Msg("This proposal is not in FCP nor has had FCP proposed.")))

CancelFcp(c) ==
    IF In(FcpProposedLabel, c.labels)
    THEN LET c1 == LabelsRemoveIfPresent(c, FcpProposedLabel)
             status == GetStatusComment(c1)
         IN  CancelFcpTail(PostOrUpdateStatusComment(c1, None, None, None, status,
                                                     Some(CancelNotice)))
    ELSE IF In(FcpLabel, c.labels)
    THEN LET c1 == LabelsRemoveIfPresent(c, FcpLabel)
             c2 == CancelTimerForProposalNum(c1, c1.num)
         IN  IF ~Ok(c2) THEN c2
             ELSE CancelFcpTail(PostComment(c2,
                      Msg("Final comment period for this proposal has been cancelled.")))
    ELSE CancelFcpTail(PostComment(c, Msg("This proposal is not in FCP nor has had FCP proposed.")))

CommandFcp(c, parameters) ==
    IF parameters = <<>> THEN Raise(c, "IndexError")
    ELSE LET disposition == Head(parameters)
         IN  IF disposition = <<"cancel">> THEN CancelFcp(c)
             ELSE IF disposition \notin {<<"merge">>, <<"postpone">>, <<"close">>}
             THEN PostComment(c, Msg("Unknown disposition."))
             ELSE IF In(FcpProposedLabel, c.labels)
             THEN PostComment(c, Msg("An FCP proposal is already in progress."))
             ELSE FcpProposalWithDisposition(c, disposition)

\* the review that reports a member who has voted already
CommandReviewComplains(c, parameters) ==
    IF ~In(FcpProposedLabel, c.labels)
    THEN PostComment(c, Msg("This proposal has not had an FCP proposed, so you cannot review it."))
    ELSE LET status == GetStatusComment(c)
         IN  IF status = 0
             THEN PostComment(c, Msg("Unable to find the status comment for this proposal..."))
             ELSE LET parsed == ParseTeamVotes(c.comments[status].body)
                  IN  IF In(c.sender, parsed)
                      THEN PostComment(c, Msg("You have already reviewed this proposal."))
                      ELSE PostOrUpdateStatusComment(c, Some(Append(parsed, c.sender)),
                                                     None, None, status, None)

\* the review that forgets the votes already cast
CommandReviewAlone(c, parameters) ==
    IF ~In(FcpProposedLabel, c.labels)
    THEN PostComment(c, Msg("This proposal has not had an FCP proposed, so you cannot review it."))
    ELSE LET status == GetStatusComment(c)
         IN  IF status = 0
             THEN PostComment(c, Msg("Unable to find the status comment for this proposal..."))
             ELSE PostOrUpdateStatusComment(c, Some(<<c.sender>>), None, None, status, None)

CommandReview(c, parameters) ==
    IF ~In(FcpProposedLabel, c.labels)
    THEN PostComment(c, Msg("This proposal has not had an FCP proposed, so you cannot review it."))
    ELSE LET status == GetStatusComment(c)
         IN  IF status = 0
             THEN PostComment(c, Msg("Unable to find the status comment for this proposal..."))
             ELSE LET parsed == ParseTeamVotes(c.comments[status].body)
                      voted == IF In(c.sender, parsed) THEN parsed ELSE Append(parsed, c.sender)
                  IN  PostOrUpdateStatusComment(c, Some(voted), None, None, status, None)

\* status = 0 is None: reading its body raises
\* the concern that is added without looking for the same text
AddConcernUnchecked(c, status, concern_text) ==
    IF status = 0 THEN Raise(c, "AttributeError")
    ELSE LET concerns == ParseConcerns(c.comments[status].body)
             c1 == PostOrUpdateStatusComment(c, None,
                       Some(Append(concerns, <<concern_text, FALSE>>)),
                       None, status, None)
         IN  IF In(UnresolvedConcernsLabel, c1.labels) THEN c1
             ELSE LabelsAdd(c1, UnresolvedConcernsLabel)

AddConcernToStatusComment(c, status, concern_text) ==
    IF status = 0 THEN Raise(c, "AttributeError")
    ELSE LET concerns == ParseConcerns(c.comments[status].body)
         IN  IF \E i \in 1..Len(concerns) : concerns[i][1] = concern_text
             THEN PostComment(c, Msg("That concern has already been raised."))
             ELSE LET c1 == PostOrUpdateStatusComment(c, None,
                                Some(Append(concerns, <<concern_text, FALSE>>)),
                                None, status, None)
                  IN  IF In(UnresolvedConcernsLabel, c1.labels) THEN c1
                      ELSE LabelsAdd(c1, UnresolvedConcernsLabel)

CommandConcern(c, parameters) ==
    LET status == GetStatusComment(c)
        c1 == IF status = 0
              THEN PostComment(c, Msg("Unable to add concern. Is this msc in FCP-proposed state?"))
              ELSE c
    IN  AddConcernToStatusComment(c1, status, Join(parameters))

ResolveConcernOnStatusComment(c, status, concern_text) ==
    IF status = 0 THEN Raise(c, "AttributeError")
    ELSE LET concerns == ParseConcerns(c.comments[status].body)
             hits == {i \in 1..Len(concerns) : concerns[i][1] = concern_text}
         IN  IF hits = {}
             THEN PostComment(c, Msg("Unknown concern."))
             ELSE LET index == CHOOSE i \in hits : \A j \in hits : j <= i
                      resolved == [concerns EXCEPT ![index] = <<concern_text, TRUE>>]
                      c1 == PostOrUpdateStatusComment(c, None, Some(resolved), None,
                                                      status, None)
                  IN  IF \A i \in 1..Len(resolved) : resolved[i][2]
                      THEN LabelsRemoveIfPresent(c1, UnresolvedConcernsLabel)
                      ELSE c1

\* the resolve that evaluates the body read before the concern was resolved
CommandResolveStale(c, parameters) ==
    LET status == GetStatusComment(c)
        c1 == IF status = 0
              THEN PostComment(c, Msg("Unable to resolve concern. Is this msc in FCP-proposed state?"))
              ELSE c
        c2 == ResolveConcernOnStatusComment(c1, status, Join(parameters))
    IN  IF ~Ok(c2) THEN c2
        ELSE ProcessStatusCommentUpdateWithBody(c2, c.comments[status].body)

CommandResolve(c, parameters) ==
    LET status == GetStatusComment(c)
        c1 == IF status = 0
              THEN PostComment(c, Msg("Unable to resolve concern. Is this msc in FCP-proposed state?"))
              ELSE c
        c2 == ResolveConcernOnStatusComment(c1, status, Join(parameters))
    IN  IF ~Ok(c2) THEN c2
        ELSE ProcessStatusCommentUpdateWithBody(c2, c2.comments[status].body)

\* self.COMMANDS: the command names of each command function
RunCommand(c, command) ==
    LET name == command[1]
        parameters == command[2]
    IN  IF name = <<"fcp">> THEN CommandFcp(c, parameters)
        ELSE IF name \in {<<"review">>, <<"reviewed">>} THEN CommandReview(c, parameters)
        ELSE IF name = <<"concern">> THEN CommandConcern(c, parameters)
        ELSE IF name \in {<<"resolve">>, <<"resolved">>} THEN CommandResolve(c, parameters)
        ELSE c

RECURSIVE RunCommands(_, _)
RunCommands(c, commands) ==
    IF commands = <<>> \/ ~Ok(c) THEN c
    ELSE RunCommands(RunCommand(c, Head(commands)), Tail(commands))

BotHandle == <<"@">> \o Bot

\* parse_commands_from_text: [raised, commands]; "@bot" alone on a line makes words[0] raise
RECURSIVE ParseCommandsFromText(_)
ParseCommandsFromText(text) ==
    IF text = <<>> THEN [raised |-> FALSE, commands |-> <<>>]
    ELSE LET words == Split(Head(text))
             rest == ParseCommandsFromText(Tail(text))
         IN  IF words = <<>> \/ Head(words) # BotHandle THEN rest
             ELSE IF Len(words) < 2 THEN [raised |-> TRUE, commands |-> <<>>]
             ELSE [raised |-> rest.raised,
                   commands |-> <<<<words[2], SubSeq(words, 3, Len(words))>>>> \o rest.commands]

----------------------------------------------------------------------------
(* Events: a webhook delivery, a timer job *)

\* GitHub keeps a set of labels: the list sent, without its repetitions
RECURSIVE Dedup(_)
Dedup(ls) ==
    IF ls = <<>> THEN <<>>
    ELSE <<Head(ls)>> \o Dedup(SelectSeq(Tail(ls), LAMBDA l : l # Head(ls)))

\* Issue.set_labels
SetLabels(c) ==
    [Call(c, [NoCall EXCEPT !.op = "set_labels", !.list = c.labels])
        EXCEPT !.remote = Dedup(c.labels)]

HandleComment(c, event) ==
    LET parsed == ParseCommandsFromText(event.body)
        original_labels == c.labels
    IN  IF parsed.raised THEN Raise(c, "IndexError")
        ELSE IF event.action = "edited"
                /\ (GetStatusComment(c) = 0 \/ event.id # GetStatusComment(c))
        THEN c
        ELSE LET c1 == IF event.action = "edited"
                       THEN ProcessStatusCommentUpdateWithBody(c, event.body)
                       ELSE RunCommands(c, parsed.commands)
             IN  IF Ok(c1) /\ c1.labels # original_labels THEN SetLabels(c1) ELSE c1

\* WebhookHandler._process_comment
WebhookAccepts(c, event) ==
    /\ event.sender # Bot
    /\ In(ProposalLabel, c.labels)
    /\ \E i \in 1..Len(c.roster) : c.roster[i] = event.sender

ProcessComment(c, event) == IF WebhookAccepts(c, event) THEN HandleComment(c, event) ELSE c

CompletionText(disposition) ==
    CASE disposition = <<"merge">> -> Msg("The final comment period, with a disposition to merge, is now complete.")
      [] disposition = <<"close">> -> Msg("The final comment period, with a disposition to close, is now complete.")
      [] OTHER -> Msg("The final comment period, with a disposition to postpone, is now complete.")

\* the enactment that finishes a proposal without disposition as well
EnactDispositionAnyway(c) ==
    LET disposition == GetDisposition(c)
        status == GetStatusComment(c)
    IN  IF disposition = <<>>
        THEN LabelsAdd(LabelsRemoveIfPresent(c, FcpLabel), FcpFinishedLabel)
        ELSE IF status = 0 THEN Raise(c, "AttributeError")
        ELSE LET c1 == PostCommentLinked(c, CompletionText(disposition), status, 0)
                 c2 == IF disposition = <<"close">>
                       THEN [Call(c1, [NoCall EXCEPT !.op = "close_issue"])
                                EXCEPT !.issueState = "closed"]
                       ELSE c1
                 c3 == LabelsRemoveIfPresent(c2, FcpLabel)
                 c4 == LabelsAdd(c3, FcpFinishedLabel)
             IN  LabelsRemoveIfPresent(c4, DispositionLabelOf(disposition))

EnactDisposition(c) ==
    LET disposition == GetDisposition(c)
        status == GetStatusComment(c)
    IN  IF disposition = <<>> THEN c
        ELSE IF status = 0 THEN Raise(c, "AttributeError")
        ELSE LET c1 == PostCommentLinked(c, CompletionText(disposition), status, 0)
                 c2 == IF disposition = <<"close">>
                       THEN [Call(c1, [NoCall EXCEPT !.op = "close_issue"])
                                EXCEPT !.issueState = "closed"]
                       ELSE c1
                 disposition_label ==
                     IF disposition \in {<<"merge">>, <<"close">>}
                     THEN DispositionLabelOf(disposition)
                     ELSE DispositionPostponeLabel
                 c3 == LabelsRemoveIfPresent(c2, FcpLabel)
                 c4 == LabelsAdd(c3, FcpFinishedLabel)
             IN  LabelsRemoveIfPresent(c4, disposition_label)

OnFcpTimerFired(c, proposal_num) ==
    LET c1 == EnactDisposition([c EXCEPT !.num = proposal_num, !.labels = c.remote])
    IN  IF Ok(c1) THEN SetLabels(c1) ELSE c1

\* the firing that calls back first and removes the timer afterwards
RunCallbackFirst(c, proposal_num) ==
    IF proposal_num \notin DOMAIN c.timers THEN Raise(c, "ProposalNotInFCP")
    ELSE LET c1 == OnFcpTimerFired(c, proposal_num)
         IN  IF Ok(c1) THEN CancelTimerForProposalNum(c1, proposal_num) ELSE c1

\* FCPTimers._run_callback
RunCallback(c, proposal_num) ==
    LET c1 == CancelTimerForProposalNum(c, proposal_num)
    IN  IF Ok(c1) THEN OnFcpTimerFired(c1, proposal_num) ELSE c1

----------------------------------------------------------------------------
(* The inputs *)

CommandLine(words) == Join(<<BotHandle>> \o words)

Dispositions == {<<"merge">>, <<"postpone">>, <<"close">>}

FcpLine(d) == CommandLine(<<<<"fcp">>, d>>)

CancelLine == FcpLine(<<"cancel">>)

ReviewLine == CommandLine(<<<<"review">>>>)

ReviewedLine == CommandLine(<<<<"reviewed">>>>)

ConcernLine1 == CommandLine(<<<<"concern">>, <<"typo">>>>)

ConcernLine2 == CommandLine(<<<<"concern">>, <<"too">>, <<"vague">>>>)

ResolveLine1 == CommandLine(<<<<"resolve">>, <<"typo">>>>)

ResolveLine2 == CommandLine(<<<<"resolve">>, <<"too">>, <<"vague">>>>)

NoArgumentLine == CommandLine(<<<<"fcp">>>>)

\* the comments whose handling reads the sender's login
ProposalBodies == {<<FcpLine(d)>> : d \in Dispositions}

SenderBodies == ProposalBodies \cup {<<ReviewLine>>}

OtherBodies ==
    {<<FcpLine(<<"rename">>)>>, <<CancelLine>>, <<ConcernLine1>>, <<ResolveLine1>>,
     <<CancelLine, NoArgumentLine>>, <<ResolveLine1, NoArgumentLine>>}

\* the deliveries the webhook filters out: somebody outside the team, the bot itself
Strangers == {Eve, Bot}

Deliveries ==
    ({Alice} \X (SenderBodies \cup OtherBodies))
    \cup ({Bob} \X {<<ReviewLine>>}) \cup ({Carol} \X {<<ReviewedLine>>})
    \cup (Strangers \X {<<FcpLine(<<"merge">>)>>})

\* two proposal cycles of one member
CycleDeliveries ==
    ({Alice} \X {<<FcpLine(<<"merge">>)>>, <<FcpLine(<<"close">>)>>,
                 <<FcpLine(<<"rename">>)>>, <<CancelLine>>, <<ConcernLine1>>})
    \cup ({Bob} \X {<<ReviewLine>>})

\* the resolve, review and concern commands of the evaluation runs
EvalDeliveries ==
    ({Alice} \X {<<ResolveLine1>>, <<ResolveLine2>>})
    \cup ({Bob} \X {<<ReviewLine>>, <<ReviewLine, ReviewLine>>})
    \cup ({Carol} \X {<<ConcernLine1>>, <<ConcernLine2>>})

Editors == {Alice}

\* a team member ticks a box of the vote list in the GitHub editor
TickLine(line, member) ==
    IF line = <<"-", " ", "[ ]", " ", "@">> \o member
    THEN <<"-", " ", "[x]", " ", "@">> \o member
    ELSE line

TickBox(body, member) == [i \in 1..Len(body) |-> TickLine(body[i], member)]

----------------------------------------------------------------------------
(* The state machine *)

Context(p, sender) ==
    [num |-> p, sender |-> sender, labels |-> labels[p], remote |-> labels[p],
     comments |-> comments[p], issueState |-> issueState[p],
     jobs |-> jobs, timers |-> timers, store |-> store, now |-> now, roster |-> roster,
     calls |-> <<>>, raised |-> "none"]

NoEvent ==
    [kind |-> "init", num |-> 0, sender |-> <<>>, body |-> <<>>, id |-> 0,
     original |-> <<>>, final |-> <<>>, accepted |-> FALSE, calls |-> <<>>,
     raised |-> "none"]

\* a CommandHandler that has handled no event yet
NoHandler == [proposal |-> 0, proposal_labels_str |-> <<>>, sender |-> <<>>]

\* two threads of waitress and one of the scheduler's pool
WebhookThreads == {"waitress-1", "waitress-2"}

SchedulerThreads == {"scheduler-1"}

Threads == WebhookThreads \cup SchedulerThreads

\* a thread between two events; reviews and enacted tell what its events did
NoThread ==
    [pc |-> "idle", num |-> 0, sender |-> <<>>, original |-> <<>>, status |-> 0,
     snapshot |-> <<>>,
     reviews |-> {}, enacted |-> FALSE]

NoThreads == [t \in Threads |-> NoThread]

\* no run of the parser
NoParser == [stage |-> "none", text |-> <<>>, raised |-> FALSE, commands |-> <<>>]

\* no run of the codec
NoCodec ==
    [stage |-> "none", members |-> <<>>, voted |-> {}, concerns |-> <<>>,
     vote_text |-> <<>>, concern_text |-> <<>>, votes |-> <<>>, parsed |-> <<>>]

WithinBounds(c, maxDocs) == Len(c.comments) <= maxDocs /\ Cardinality(c.jobs) <= MaxJobs

\* the effect of a handled event on GitHub, the scheduler and the database
Commit(p, c, event, maxDocs) ==
    /\ WithinBounds(c, maxDocs)
    /\ labels' = [labels EXCEPT ![p] = c.remote]
    /\ comments' = [comments EXCEPT ![p] = c.comments]
    /\ issueState' = [issueState EXCEPT ![p] = c.issueState]
    /\ jobs' = c.jobs
    /\ timers' = c.timers
    /\ store' = c.store
    /\ ev' = [event EXCEPT !.calls = c.calls, !.raised = c.raised, !.final = c.labels]
    /\ UNCHANGED <<handler, threads, codec, parser>>

Init ==
    /\ labels = [p \in Proposals |-> <<ProposalLabel, InReviewLabel>>]
    /\ comments = [p \in Proposals |-> <<>>]
    /\ issueState = [p \in Proposals |-> "open"]
    /\ jobs = {}
    /\ timers = <<>>
    /\ store = <<>>
    /\ now = 0
    /\ roster = <<Alice, Bob, Carol>>
    /\ ev = NoEvent
    /\ handler = NoHandler
    /\ threads = NoThreads
    /\ codec = NoCodec
    /\ parser = NoParser

\* an issue_comment "created" delivery
CommentCreated(deliveries, maxDocs) ==
    \E p \in Proposals, d \in deliveries :
        LET sender == d[1]
            body == d[2]
            event == [NoEvent EXCEPT !.kind = "created", !.num = p, !.sender = sender,
                                     !.body = body, !.original = labels[p]]
            c0 == Context(p, sender)
            payload == [action |-> "created", sender |-> sender, body |-> body, id |-> 0]
        IN  /\ Commit(p, ProcessComment(c0, payload),
                      [event EXCEPT !.accepted = WebhookAccepts(c0, payload)], maxDocs)
            /\ UNCHANGED <<now, roster>>

\* somebody ticks a box of a comment of the bot: an issue_comment "edited" delivery
CommentEdited(editors, maxDocs) ==
    \E p \in Proposals, sender \in editors, member \in Range(roster) :
      \E i \in 1..Len(comments[p]) :
        LET body == TickBox(comments[p][i].body, member)
            event == [NoEvent EXCEPT !.kind = "edited", !.num = p, !.sender = sender,
                                     !.body = body, !.id = i, !.original = labels[p]]
            c0 == [Context(p, sender) EXCEPT !.comments[i].body = body]
            payload == [action |-> "edited", sender |-> sender, body |-> body, id |-> i]
        IN  /\ body # comments[p][i].body
            /\ Commit(p, ProcessComment(c0, payload),
                      [event EXCEPT !.accepted = WebhookAccepts(c0, payload)], maxDocs)
            /\ UNCHANGED <<now, roster>>

\* GitHub delivers the bot's own edit of a comment back to the webhook
EditEchoed(maxDocs) ==
    \E p \in Proposals :
      \E i \in 1..Len(comments[p]) :
        LET body == comments[p][i].body
            event == [NoEvent EXCEPT !.kind = "edited", !.num = p, !.sender = Bot,
                                     !.body = body, !.id = i, !.original = labels[p]]
            c0 == Context(p, Bot)
            payload == [action |-> "edited", sender |-> Bot, body |-> body, id |-> i]
        IN  /\ ev.kind = "created" /\ ev.num = p
            /\ \E k \in 1..Len(ev.calls) : ev.calls[k].op = "edit_comment" /\ ev.calls[k].id = i
            /\ Commit(p, ProcessComment(c0, payload),
                      [event EXCEPT !.accepted = WebhookAccepts(c0, payload)], maxDocs)
            /\ UNCHANGED <<now, roster>>

\* a job of the scheduler is due: it leaves the scheduler and _run_callback runs
TimerFired(maxDocs) ==
    \E j \in jobs :
        LET event == [NoEvent EXCEPT !.kind = "timer", !.num = j.num, !.id = j.id,
                                     !.original = labels[j.num], !.accepted = TRUE]
            c0 == [Context(j.num, <<>>) EXCEPT !.jobs = @ \ {j}]
        IN  /\ j.run_time <= now
            /\ now <= j.run_time + MisfireGraceSeconds
            /\ Commit(j.num, RunCallback(c0, j.num), event, maxDocs)
            /\ UNCHANGED <<now, roster>>

\* time passes, up to the next instant at which a job is due
TimePasses ==
    \E j \in jobs :
        /\ j.run_time > now
        /\ j.run_time <= MaxTime
        /\ now' = j.run_time
        /\ ev' = [NoEvent EXCEPT !.kind = "time"]
        /\ UNCHANGED <<labels, comments, issueState, jobs, timers, store, roster, handler, threads, codec, parser>>

Next ==
    \/ CommentCreated(Deliveries, MaxDocs)
    \/ CommentEdited(Editors, MaxDocs)
    \/ EditEchoed(MaxDocs)
    \/ TimerFired(MaxDocs)
    \/ TimePasses

Spec == Init /\ [][Next]_vars

\* the scheduler thread runs the jobs that are due, and time passes
SpecFair ==
    /\ Spec
    /\ WF_vars(TimerFired(MaxDocs))
    /\ WF_vars(TimePasses)

\* the same machine over two proposal cycles, driven by one member
NextCycles ==
    \/ CommentCreated(CycleDeliveries, MaxCycleDocs)
    \/ CommentEdited(Editors, MaxCycleDocs)
    \/ EditEchoed(MaxCycleDocs)
    \/ TimerFired(MaxCycleDocs)
    \/ TimePasses

SpecCycles == Init /\ [][NextCycles]_vars

----------------------------------------------------------------------------
(* Evaluation runs: the automatic-start evaluation applied to the status   *)
(* comments the bot renders, for a team of three and a team of four        *)

EvalRosters == {<<Alice, Bob, Carol>>, <<Alice, Bob, Carol, Dave>>}

EvalConcerns ==
    {<<>>, <<<<<<"typo">>, FALSE>>>>, <<<<<<"typo">>, TRUE>>>>,
     <<<<<<"typo">>, TRUE>>, <<<<"too", " ", "vague">>, FALSE>>>>}

EvalLabels ==
    {<<ProposalLabel, DispositionMergeLabel, FcpProposedLabel>>,
     <<ProposalLabel, DispositionMergeLabel, FcpProposedLabel, UnresolvedConcernsLabel>>,
     <<ProposalLabel, DispositionMergeLabel, FcpLabel>>,
     <<ProposalLabel, InReviewLabel>>}

\* a proposal in FCP has its timer, set by _start_fcp at time 0
EvalActive == {p \in Proposals : In(FcpLabel, labels[p])}

EvalRunTime == FcpTimeDays * DaySeconds + GraceSeconds

InitEval ==
    /\ roster \in EvalRosters
    /\ \E voted \in SUBSET Range(roster), concerns \in EvalConcerns :
          comments = [p \in Proposals |->
              <<[user |-> Bot,
                 body |-> RenderTemplate(Bot, <<"merge">>,
                              FormatTeamVotes(roster, SetToSeq(voted)),
                              FormatConcerns(concerns))]>>]
    /\ labels \in [Proposals -> EvalLabels]
    /\ issueState = [p \in Proposals |-> "open"]
    /\ jobs = {[id |-> 1, num |-> p, run_time |-> EvalRunTime] : p \in EvalActive}
    /\ timers = [p \in EvalActive |-> 1]
    /\ store = [p \in EvalActive |-> EvalRunTime]
    /\ now = 0
    /\ ev = NoEvent
    /\ handler = NoHandler
    /\ threads = NoThreads
    /\ codec = NoCodec
    /\ parser = NoParser

NextEval ==
    \/ CommentCreated(EvalDeliveries, MaxDocs)
    \/ CommentEdited(Editors, MaxDocs)

SpecEval == InitEval /\ [][NextEval]_vars

----------------------------------------------------------------------------
(* Scheduler runs: FCPTimers driven operation by operation, with the        *)
(* process killed and started again                                        *)

\* how far ahead of the clock a timer is scheduled
TimerDelays == {2, 4}

\* how long the process stays down
Downtimes == {0, 1, 3}

\* the proposals of the scheduler runs: one whose callback finds nothing to
\* enact, one whose callback raises
TimerLabels ==
    {<<ProposalLabel, InReviewLabel>>,
     <<ProposalLabel, DispositionMergeLabel, FcpLabel>>}

InitTimers ==
    /\ labels \in [Proposals -> TimerLabels]
    /\ comments = [p \in Proposals |-> <<>>]
    /\ issueState = [p \in Proposals |-> "open"]
    /\ jobs = {}
    /\ timers = <<>>
    /\ store = <<>>
    /\ now = 0
    /\ roster = <<Alice, Bob, Carol>>
    /\ ev = NoEvent
    /\ handler = NoHandler
    /\ threads = NoThreads
    /\ codec = NoCodec
    /\ parser = NoParser

\* new_timer(run_time, proposal_num)
TimerScheduled ==
    \E p \in Proposals, d \in TimerDelays :
        LET event == [NoEvent EXCEPT !.kind = "schedule", !.num = p,
                                     !.original = labels[p], !.accepted = TRUE]
        IN  /\ now + d <= MaxClock
            /\ Commit(p, NewTimer(Context(p, <<>>), now + d, p, TRUE), event, MaxDocs)
            /\ UNCHANGED <<now, roster>>

\* cancel_timer_for_proposal_num(proposal_num)
TimerCancelled ==
    \E p \in Proposals :
        LET event == [NoEvent EXCEPT !.kind = "cancel", !.num = p,
                                     !.original = labels[p], !.accepted = TRUE]
        IN  /\ Commit(p, CancelTimerForProposalNum(Context(p, <<>>), p), event, MaxDocs)
            /\ UNCHANGED <<now, roster>>

\* the scheduler finds a job later than the misfire grace time: the run is
\* skipped, and the job, whose trigger has no other run, leaves the scheduler
JobMissed ==
    \E j \in jobs :
        /\ now > j.run_time + MisfireGraceSeconds
        /\ jobs' = jobs \ {j}
        /\ ev' = [NoEvent EXCEPT !.kind = "missed", !.num = j.num, !.id = j.id,
                                 !.original = labels[j.num], !.final = labels[j.num]]
        /\ UNCHANGED <<labels, comments, issueState, timers, store, now, roster, handler, threads, codec, parser>>

\* a second passes while the process runs and no job is due
ClockTicks ==
    /\ now < MaxClock
    /\ \A j \in jobs : j.run_time > now
    /\ now' = now + 1
    /\ ev' = [NoEvent EXCEPT !.kind = "time"]
    /\ UNCHANGED <<labels, comments, issueState, jobs, timers, store, roster, handler, threads, codec, parser>>

\* the state of a new process, started d seconds after the old one died
Started(p, c, event, d) ==
    /\ now + d <= MaxClock
    /\ now' = now + d
    /\ Commit(p, StartTimers([c EXCEPT !.now = now + d]), event, MaxDocs)
    /\ UNCHANGED roster

\* the process is killed between two events and started again
Restarted ==
    \E p \in Proposals, d \in Downtimes :
        LET event == [NoEvent EXCEPT !.kind = "restart", !.original = labels[p]]
        IN  Started(p, Context(p, <<>>), event, d)

\* the process is killed inside new_timer, after add_job and before
\* _db_save_timer, and started again
ScheduleCrashed ==
    \E p \in Proposals, t \in TimerDelays, d \in Downtimes :
        LET c == NewTimer(Context(p, <<>>), now + t, p, FALSE)
        IN  /\ now + t <= MaxClock
            /\ Started(p, [c EXCEPT !.calls = <<>>],
                       [NoEvent EXCEPT !.kind = "schedule_crash", !.num = p,
                                       !.original = labels[p]], d)

\* the process is killed inside _run_callback, after
\* cancel_timer_for_proposal_num and before the callback, and started again
FireCrashed ==
    \E j \in jobs, d \in Downtimes :
        LET c == CancelTimerForProposalNum([Context(j.num, <<>>) EXCEPT !.jobs = @ \ {j}], j.num)
        IN  /\ j.run_time <= now
            /\ now <= j.run_time + MisfireGraceSeconds
            /\ Ok(c)
            /\ Started(j.num, [c EXCEPT !.calls = <<>>],
                       [NoEvent EXCEPT !.kind = "fire_crash", !.num = j.num, !.id = j.id,
                                       !.original = labels[j.num]], d)

NextTimers ==
    \/ TimerScheduled
    \/ TimerCancelled
    \/ TimerFired(MaxDocs)
    \/ JobMissed
    \/ ClockTicks
    \/ Restarted
    \/ ScheduleCrashed
    \/ FireCrashed

SpecTimers == InitTimers /\ [][NextTimers]_vars

\* the scheduler thread runs the jobs that are due, and the clock advances
SpecTimersFair ==
    /\ SpecTimers
    /\ WF_vars(TimerFired(MaxDocs))
    /\ WF_vars(JobMissed)
    /\ WF_vars(ClockTicks)

----------------------------------------------------------------------------
(* Threads: waitress hands the deliveries to its worker threads and the     *)
(* scheduler runs its jobs in a thread of its pool; all of them call the   *)
(* one CommandHandler, whose fields they share, and no lock is taken.  A   *)
(* thread can be preempted at each call to GitHub: the steps of a thread   *)
(* are the stretches of code between such calls.                           *)

\* the context of a step: the fields of the handler, GitHub as it is now
ThreadContext ==
    [Context(handler.proposal, handler.sender)
        EXCEPT !.labels = handler.proposal_labels_str]

\* the effect of one step of thread t
Land(c, t, h, thread, step) ==
    /\ labels' = [labels EXCEPT ![c.num] = c.remote]
    /\ comments' = [comments EXCEPT ![c.num] = c.comments]
    /\ issueState' = [issueState EXCEPT ![c.num] = c.issueState]
    /\ jobs' = c.jobs
    /\ timers' = c.timers
    /\ store' = c.store
    /\ handler' = h
    /\ threads' = [threads EXCEPT ![t] = thread]
    /\ ev' = [NoEvent EXCEPT !.kind = step, !.num = c.num, !.sender = thread.sender,
                             !.calls = c.calls, !.raised = c.raised, !.final = c.labels]
    /\ UNCHANGED <<now, roster, codec, parser>>

Reviewers == {Bob, Carol}

\* handle_comment up to the commands: the fields of the handler are set from
\* the delivery, the snapshot of the labels is a local variable
HandleCommentBegins ==
    \E t \in WebhookThreads, p \in DOMAIN labels, sender \in Reviewers :
        LET payload == [action |-> "created", sender |-> sender, body |-> <<ReviewLine>>, id |-> 0]
            c == Context(p, sender)
        IN  /\ threads[t].pc = "idle"
            /\ WebhookAccepts(c, payload)
            /\ ~ParseCommandsFromText(payload.body).raised
            /\ Land(c, t, [proposal |-> p, proposal_labels_str |-> labels[p], sender |-> sender],
                    [threads[t] EXCEPT !.pc = "commands", !.num = p, !.sender = sender,
                                       !.original = labels[p]],
                    "begin")

\* _command_review up to _get_status_comment, which fetches the comments
ReviewFetches ==
    \E t \in WebhookThreads :
        LET c == ThreadContext
            status == GetStatusComment(c)
        IN  /\ threads[t].pc = "commands"
            /\ IF ~In(FcpProposedLabel, c.labels) \/ status = 0
               THEN LET c1 == CommandReview(c, <<>>)
                    IN  Land(c1, t, handler, [threads[t] EXCEPT !.pc = "finish"], "fetch")
               ELSE Land(c, t, handler,
                         [threads[t] EXCEPT !.pc = "fetched", !.status = status,
                                            !.snapshot = c.comments[status].body],
                         "fetch")

\* _command_review from the fetched comment to its edit
ReviewUpdates ==
    \E t \in WebhookThreads :
        LET status == threads[t].status
            c == [ThreadContext EXCEPT !.comments[status].body = threads[t].snapshot]
            parsed == ParseTeamVotes(threads[t].snapshot)
            commenter == handler.sender
            voted == IF In(commenter, parsed) THEN parsed ELSE Append(parsed, commenter)
            c1 == PostOrUpdateStatusComment(c, Some(voted), None, None, status, None)
        IN  /\ threads[t].pc = "fetched"
            /\ Land(c1, t, handler,
                    [threads[t] EXCEPT !.pc = "finish", !.reviews = @ \cup {threads[t].sender}],
                    "update")

\* the end of handle_comment: the labels of the handler against the snapshot
HandleCommentEnds ==
    \E t \in WebhookThreads :
        LET c == ThreadContext
            c1 == IF c.labels # threads[t].original THEN SetLabels(c) ELSE c
        IN  /\ threads[t].pc = "finish"
            /\ Land(c1, t, handler, [threads[t] EXCEPT !.pc = "idle"], "end")

\* _run_callback and _on_fcp_timer_fired up to _enact_disposition: the timer
\* is removed, the labels of the handler are fetched from GitHub
TimerRunBegins ==
    \E t \in SchedulerThreads, j \in jobs :
        LET c0 == [Context(j.num, handler.sender) EXCEPT !.jobs = @ \ {j}]
            c1 == CancelTimerForProposalNum(c0, j.num)
        IN  /\ threads[t].pc = "idle"
            /\ j.run_time <= now
            /\ now <= j.run_time + MisfireGraceSeconds
            /\ IF Ok(c1)
               THEN Land(c1, t, [handler EXCEPT !.proposal = j.num,
                                                !.proposal_labels_str = labels[j.num]],
                         [threads[t] EXCEPT !.pc = "enact", !.num = j.num], "fire")
               ELSE Land(c1, t, handler, threads[t], "fire")

\* _enact_disposition on the labels of the handler
TimerEnacts ==
    \E t \in SchedulerThreads :
        LET c == ThreadContext
            c1 == EnactDisposition(c)
        IN  /\ threads[t].pc = "enact"
            /\ IF Ok(c1)
               THEN Land(c1, t, [handler EXCEPT !.proposal_labels_str = c1.labels],
                         [threads[t] EXCEPT !.pc = "write",
                                            !.enacted = @ \/ GetDisposition(c) # <<>>],
                         "enact")
               ELSE Land(c1, t, handler, [threads[t] EXCEPT !.pc = "idle"], "enact")

\* the end of _on_fcp_timer_fired: the labels of the handler are written
TimerWrites ==
    \E t \in SchedulerThreads :
        /\ threads[t].pc = "write"
        /\ Land(SetLabels(ThreadContext), t, handler, [threads[t] EXCEPT !.pc = "idle"], "write")

\* the status comment of alice's "fcp merge" with the boxes of voted ticked
ThreadsComment(voted) ==
    [user |-> Bot,
     body |-> RenderTemplate(Alice, <<"merge">>,
                             FormatTeamVotes(<<Alice, Bob, Carol>>, voted),
                             FormatConcerns(<<>>))]

ThreadsRunTime == FcpTimeDays * DaySeconds + GraceSeconds

\* the proposal after alice's "fcp merge"
InitProposed ==
    /\ labels = [p \in Proposals |-> <<ProposalLabel, DispositionMergeLabel, FcpProposedLabel>>]
    /\ comments = [p \in Proposals |-> <<ThreadsComment(<<Alice>>)>>]
    /\ jobs = {}
    /\ timers = <<>>
    /\ store = <<>>
    /\ now = 0

\* the proposal in its final comment period, started at time 0 when the boxes
\* of bob and carol were ticked, at the time its timer is due
InitActive ==
    /\ labels = [p \in Proposals |-> <<ProposalLabel, DispositionMergeLabel, FcpLabel>>]
    /\ comments = [p \in Proposals |-> <<ThreadsComment(<<Alice, Bob, Carol>>)>>]
    /\ jobs = {[id |-> 1, num |-> p, run_time |-> ThreadsRunTime] : p \in Proposals}
    /\ timers = [p \in Proposals |-> 1]
    /\ store = [p \in Proposals |-> ThreadsRunTime]
    /\ now = ThreadsRunTime

InitThreads ==
    /\ InitProposed \/ InitActive
    /\ issueState = [p \in Proposals |-> "open"]
    /\ roster = <<Alice, Bob, Carol>>
    /\ ev = NoEvent
    /\ handler = NoHandler
    /\ threads = NoThreads
    /\ codec = NoCodec
    /\ parser = NoParser

NextThreads ==
    \/ HandleCommentBegins
    \/ ReviewFetches
    \/ ReviewUpdates
    \/ HandleCommentEnds
    \/ TimerRunBegins
    \/ TimerEnacts
    \/ TimerWrites

SpecThreads == InitThreads /\ [][NextThreads]_vars

----------------------------------------------------------------------------
(* Codec runs: the vote lines and the concern section are formatted from   *)
(* given members, votes and concerns, and parsed back                      *)

\* concern texts as " ".join(parameters) gives them
CodecTexts ==
    {<<"typo">>, <<"too", " ", "vague">>, <<"~~", "typo", "~~">>, <<"~~", "typo">>,
     <<"[x]", " ", "@", "bob">>}

CodecConcerns == UNION {[1..n -> CodecTexts \X BOOLEAN] : n \in 0..MaxConcerns}

InitCodec ==
    /\ labels = [p \in Proposals |-> <<ProposalLabel, InReviewLabel>>]
    /\ comments = [p \in Proposals |-> <<>>]
    /\ issueState = [p \in Proposals |-> "open"]
    /\ jobs = {}
    /\ timers = <<>>
    /\ store = <<>>
    /\ now = 0
    /\ roster \in EvalRosters
    /\ ev = NoEvent
    /\ handler = NoHandler
    /\ threads = NoThreads
    /\ parser = NoParser
    /\ \E voted \in SUBSET Range(roster), concerns \in CodecConcerns :
          codec = [NoCodec EXCEPT !.stage = "given", !.members = roster,
                                  !.voted = voted, !.concerns = concerns]

\* _format_team_votes and _format_concerns
CodecFormats ==
    /\ codec.stage = "given"
    /\ codec' = [codec EXCEPT
                    !.stage = "formatted",
                    !.vote_text = FormatTeamVotes(codec.members, SetToSeq(codec.voted)),
                    !.concern_text = FormatConcerns(codec.concerns)]
    /\ UNCHANGED <<labels, comments, issueState, jobs, timers, store, now, roster, ev,
                   handler, threads, parser>>

\* _parse_team_votes_from_status_comment_body and
\* _parse_concerns_from_status_comment_body
CodecParses ==
    /\ codec.stage = "formatted"
    /\ codec' = [codec EXCEPT
                    !.stage = "parsed",
                    !.votes = ParseTeamVotes(codec.vote_text),
                    !.parsed = ParseConcerns(codec.concern_text)]
    /\ UNCHANGED <<labels, comments, issueState, jobs, timers, store, now, roster, ev,
                   handler, threads, parser>>

NextCodec ==
    \/ CodecFormats
    \/ CodecParses

SpecCodec == InitCodec /\ [][NextCodec]_vars

\* two proposals: 42 proposed by alice, 43 in its final comment period with
\* its timer due
InitShared ==
    /\ labels = (42 :> <<ProposalLabel, DispositionMergeLabel, FcpProposedLabel>>)
                @@ (43 :> <<ProposalLabel, DispositionMergeLabel, FcpLabel>>)
    /\ comments = (42 :> <<ThreadsComment(<<Alice>>)>>)
                  @@ (43 :> <<ThreadsComment(<<Alice, Bob, Carol>>)>>)
    /\ issueState = (42 :> "open") @@ (43 :> "open")
    /\ jobs = {[id |-> 1, num |-> 43, run_time |-> ThreadsRunTime]}
    /\ timers = (43 :> 1)
    /\ store = (43 :> ThreadsRunTime)
    /\ now = ThreadsRunTime
    /\ roster = <<Alice, Bob, Carol>>
    /\ ev = NoEvent
    /\ handler = NoHandler
    /\ threads = NoThreads
    /\ codec = NoCodec
    /\ parser = NoParser

\* each thread of waitress is given one delivery
FirstDelivery ==
    \A t \in WebhookThreads : threads'[t].pc = "commands" => threads[t].num = 0

NextShared ==
    \/ HandleCommentBegins /\ FirstDelivery
    \/ ReviewFetches
    \/ ReviewUpdates
    \/ HandleCommentEnds
    \/ TimerRunBegins
    \/ TimerEnacts
    \/ TimerWrites

SpecShared == InitShared /\ [][NextShared]_vars

----------------------------------------------------------------------------
(* Parser runs: parse_commands_from_text applied to comment texts          *)

\* lines of a comment: empty, blank, a command without and with arguments,
\* indented, the handle alone, not first, spelled differently, with a suffix
ParserLines ==
    {<<>>, <<" ">>, ReviewLine, ConcernLine2, <<" ", " ">> \o FcpLine(<<"merge">>),
     BotHandle, <<"hello", " ">> \o ReviewLine,
     <<"@", "MSCbot", " ", "review">>, <<"@", "mscbot", ":", " ", "review">>}

ParserTexts == UNION {[1..n -> ParserLines] : n \in 0..MaxLines}

InitParser ==
    /\ labels = [p \in Proposals |-> <<ProposalLabel, InReviewLabel>>]
    /\ comments = [p \in Proposals |-> <<>>]
    /\ issueState = [p \in Proposals |-> "open"]
    /\ jobs = {}
    /\ timers = <<>>
    /\ store = <<>>
    /\ now = 0
    /\ roster = <<Alice, Bob, Carol>>
    /\ ev = NoEvent
    /\ handler = NoHandler
    /\ threads = NoThreads
    /\ codec = NoCodec
    /\ \E text \in ParserTexts : parser = [NoParser EXCEPT !.stage = "given", !.text = text]

\* parse_commands_from_text
ParserParses ==
    /\ parser.stage = "given"
    /\ parser' = [parser EXCEPT !.stage = "parsed",
                                !.raised = ParseCommandsFromText(parser.text).raised,
                                !.commands = ParseCommandsFromText(parser.text).commands]
    /\ UNCHANGED <<labels, comments, issueState, jobs, timers, store, now, roster, ev,
                   handler, threads, codec>>

NextParser == ParserParses

SpecParser == InitParser /\ [][NextParser]_vars

----------------------------------------------------------------------------
(* What the claims speak of *)

LabelSet(p) == Range(labels[p])

Calls(op) == {i \in 1..Len(ev.calls) : ev.calls[i].op = op}

\* the last event was a comment of a team member holding exactly this body
Commanded(body) == ev.kind = "created" /\ ev.accepted /\ ev.body = body

\* the last event ran _start_fcp
StartedFcp == Calls("add_job") # {}

\* the last event put the fcp label on a proposal that did not carry it
FcpAdded == ev.num \in Proposals /\ ~In(FcpLabel, ev.original) /\ FcpLabel \in LabelSet(ev.num)

\* the members whose box is ticked in a body
Voters(body) == {m \in Range(roster) : <<"-", " ", "[x]", " ", "@">> \o m \in Range(body)}

RatioReached(body) == Cardinality(Voters(body)) * RatioDen >= RatioNum * Len(roster)

ListsUnresolved(body) == \E i \in 1..Len(ParseConcerns(body)) : ~ParseConcerns(body)[i][2]

\* C1: a proposal carries at most one of fcp-proposed, fcp and fcp-finished
C1_OneFcpState ==
    \A p \in Proposals :
        Cardinality(LabelSet(p) \cap {FcpProposedLabel, FcpLabel, FcpFinishedLabel}) <= 1

\* C2: after every fully processed event a disposition label is present if and
\* only if the proposal carries fcp-proposed or fcp
C2_DispositionIffFcp ==
    \A p \in Proposals :
        ev.raised = "none" =>
            ((LabelSet(p) \cap DispositionLabels # {})
                <=> (LabelSet(p) \cap {FcpProposedLabel, FcpLabel} # {}))

\* C3: the fcp label is added, and a timer scheduled, only by an event whose
\* label set contains fcp-proposed
C3_ActiveOnlyFromProposed ==
    (FcpAdded \/ StartedFcp) => In(FcpProposedLabel, ev.original)

\* the last event evaluated the automatic start on the status comment of p:
\* an edit of that comment, or a resolve command
EditEvaluated(p) ==
    /\ ev.kind = "edited" /\ ev.accepted /\ ev.num = p /\ ev.raised = "none"
    /\ ev.id = StatusCommentOf(comments[p])

ResolveEvaluated(p) ==
    /\ ev.num = p /\ ev.raised = "none"
    /\ Commanded(<<ResolveLine1>>) \/ Commanded(<<ResolveLine2>>)
    /\ StatusCommentOf(comments[p]) # 0

StatusBody(p) == comments[p][StatusCommentOf(comments[p])].body

\* C5: after "fcp merge", the review command that brings the voted count of
\* the status comment to the required ratio, with no unresolved concern,
\* leaves the proposal in FCP: labels with fcp and disposition-merge and
\* without fcp-proposed, and a timer scheduled for the proposal.
C5_ReviewsStartFcp ==
    \A p \in Proposals :
        ( /\ Commanded(<<ReviewLine>>) /\ ev.num = p /\ ev.raised = "none"
          /\ In(FcpProposedLabel, ev.original)
          /\ In(DispositionMergeLabel, ev.original)
          /\ Calls("edit_comment") # {}
          /\ RatioReached(StatusBody(p))
          /\ ~ListsUnresolved(StatusBody(p)) )
        => /\ FcpLabel \in LabelSet(p)
           /\ DispositionMergeLabel \in LabelSet(p)
           /\ FcpProposedLabel \notin LabelSet(p)
           /\ p \in DOMAIN timers
           /\ \E j \in jobs : j.num = p

\* C6: whenever an event adds the fcp label, the live status comment lists no
\* unresolved concern and the proposal does not carry unresolved-concerns.
C6_NoFcpWithOpenConcern ==
    \A p \in Proposals :
        (FcpAdded /\ ev.num = p) =>
            /\ StatusCommentOf(comments[p]) # 0
            /\ ~ListsUnresolved(StatusBody(p))
            /\ UnresolvedConcernsLabel \notin LabelSet(p)

ConclusionTime == now + FcpTimeDays * DaySeconds + GraceSeconds

\* C7: when FCP starts, a timer for the proposal is scheduled and persisted at
\* now + FCP duration + 10 seconds, the start announcement linking to the
\* status comment is posted, fcp is added, fcp-proposed and the in-review
\* label are removed and the disposition label stays.
C7_StartFcpEffects ==
    StartedFcp =>
        LET p == ev.num IN
        /\ \E i \in Calls("add_job") : ev.calls[i].id = p /\ ev.calls[i].time = ConclusionTime
        /\ \E i \in Calls("db_save") : ev.calls[i].id = p /\ ev.calls[i].time = ConclusionTime
        /\ p \in DOMAIN store /\ store[p] = ConclusionTime
        /\ p \in DOMAIN timers
        /\ \E j \in jobs : j.id = timers[p] /\ j.num = p /\ j.run_time = ConclusionTime
        /\ \E i \in Calls("create_comment") :
              /\ ev.calls[i].body = Msg("This is now entering its final comment period")
              /\ ev.calls[i].id = StatusCommentOf(comments[p])
              /\ ev.calls[i].id # 0
              /\ ev.calls[i].time = ConclusionTime
        /\ In(FcpLabel, ev.final)
        /\ ~In(FcpProposedLabel, ev.final)
        /\ ~In(InReviewLabel, ev.final)
        /\ \A d \in DispositionLabels : In(d, ev.original) <=> In(d, ev.final)
        /\ ev.raised = "none" =>
              /\ labels[p] = Dedup(ev.final)
              /\ Calls("set_labels") # {}

\* an edit starts the FCP of a proposal to merge
C7_Witness ==
    /\ StartedFcp
    /\ ev.kind = "edited"
    /\ ev.raised = "none"
    /\ In(FcpProposedLabel, ev.original)
    /\ In(DispositionMergeLabel, ev.original)
    /\ LabelSet(ev.num) = {ProposalLabel, DispositionMergeLabel, FcpLabel}
    /\ store[ev.num] = ConclusionTime

\* the step is the handling of a created comment of a team member with this body
Handles(body) == ev'.kind = "created" /\ ev'.accepted /\ ev'.body = body

CallsOf(e, op) == {i \in 1..Len(e.calls) : e.calls[i].op = op}

\* the body of the last comment of a list
Posted(cs) == cs[Len(cs)].body

C9_ProposalRejected ==
    [][ \A d \in Dispositions \cup {<<"rename">>} :
          LET p == ev'.num IN
          ( /\ Handles(<<FcpLine(d)>>)
            /\ \/ In(FcpLabel, labels[p])
               \/ In(FcpProposedLabel, labels[p])
               \/ d \notin Dispositions )
          => /\ ev'.raised = "none"
             /\ Len(ev'.calls) = 1
             /\ ev'.calls[1].op = "create_comment"
             /\ ev'.calls[1].body \in
                    {Msg("Unknown disposition."),
                     Msg("An FCP proposal is already in progress."),
                     Msg("This proposal is already in FCP.")}
             /\ d \in Dispositions /\ In(FcpLabel, labels[p]) /\ ~In(FcpProposedLabel, labels[p])
                    => ev'.calls[1].body = Msg("This proposal is already in FCP.")
             /\ comments' = comments
             /\ labels' = labels
             /\ ev'.final = labels[p]
             /\ UNCHANGED <<jobs, timers, store, issueState>>
      ]_vars

\* a proposal to close is rejected while the FCP of a proposal to merge runs
C9_Witness ==
    /\ Commanded(<<FcpLine(<<"close">>)>>)
    /\ In(FcpLabel, ev.original)
    /\ Calls("create_comment") = {1}
    /\ ev.calls[1].body = Msg("This proposal is already in FCP.")
    /\ labels[ev.num] = ev.original

\* the text below the cancellation notice
BelowNotice(body) == SubSeq(body, Len(CancelNotice) + 1, Len(body))

C11_CancelActive ==
    [][ LET p == ev'.num IN
        ( /\ Handles(<<CancelLine>>)
          /\ In(FcpLabel, labels[p])
          /\ ~In(FcpProposedLabel, labels[p]) )
        => /\ ev'.raised = "none"
           /\ ~In(FcpLabel, labels'[p])
           /\ p \notin DOMAIN timers'
           /\ p \notin DOMAIN store'
           /\ \A j \in jobs' : j.num # p
           /\ comments' = comments
           /\ \E i \in CallsOf(ev', "create_comment") :
                 ev'.calls[i].body =
                     Msg("Final comment period for this proposal has been cancelled.")
           /\ CallsOf(ev', "edit_comment") = {}
           /\ Range(labels'[p]) \cap DispositionLabels = {}
           /\ In(InReviewLabel, labels'[p])
      ]_vars

\* C12: "fcp cancel" on a proposal with neither fcp-proposed nor fcp posts the
\* error comment and changes no label: the label set after the event is the
\* label set before it and no label update is sent.
C12_CancelNeither ==
    ( /\ Commanded(<<CancelLine>>)
      /\ ~In(FcpLabel, ev.original)
      /\ ~In(FcpProposedLabel, ev.original) )
    => /\ ev.raised = "none"
       /\ \E i \in Calls("create_comment") :
             ev.calls[i].body = Msg("This proposal is not in FCP nor has had FCP proposed.")
       /\ LabelSet(ev.num) = Range(ev.original)
       /\ Calls("set_labels") = {}

\* C13: a review command on a proposal without fcp-proposed posts the error
\* comment and changes neither a comment nor the labels; with fcp-proposed
\* it adds the commenter to the voted members of the live status comment and
\* renders it again.
C13_Review ==
    [][ LET p == ev'.num
            s == StatusCommentOf(comments[p])
        IN  (Handles(<<ReviewLine>>) \/ Handles(<<ReviewedLine>>)) =>
            /\ ev'.raised = "none"
            /\ labels' = labels
            /\ UNCHANGED <<jobs, timers, store, issueState>>
            /\ ~In(FcpProposedLabel, labels[p]) =>
                  /\ comments' = comments
                  /\ Len(ev'.calls) = 1
                  /\ ev'.calls[1].op = "create_comment"
                  /\ ev'.calls[1].body =
                       Msg("This proposal has not had an FCP proposed, so you cannot review it.")
            /\ (In(FcpProposedLabel, labels[p]) /\ s # 0) =>
                  LET old == comments[p][s].body
                      new == comments'[p][s].body
                  IN  /\ Range(ParseTeamVotes(new)) =
                            Range(ParseTeamVotes(old)) \cup {ev'.sender}
                      /\ ParseConcerns(new) = ParseConcerns(old)
                      /\ new = RenderTemplate(Bot, DispositionText(DispositionOf(labels[p])),
                                   FormatTeamVotes(roster, ParseTeamVotes(new)),
                                   FormatConcerns(ParseConcerns(old)))
                      /\ StatusCommentOf(comments'[p]) = s
                      /\ Len(comments'[p]) = Len(comments[p])
                      /\ \A i \in 1..Len(comments[p]) :
                            i # s => comments'[p][i] = comments[p][i]
                      /\ Len(ev'.calls) = 1
                      /\ ev'.calls[1].op = "edit_comment"
      ]_vars

\* bob reviews the proposal alice made: the status comment lists both
C13_Witness ==
    /\ Commanded(<<ReviewLine>>)
    /\ ev.sender = Bob
    /\ In(FcpProposedLabel, ev.original)
    /\ Calls("edit_comment") # {}
    /\ Voters(StatusBody(ev.num)) = {Alice, Bob}

\* C14: review is idempotent: a review of a member who has voted already
\* leaves the voted members of the status comment as they were, two reviews of
\* one member leave the voted members that one review leaves, and the second
\* review is not reported as an error.
C14_ReviewIdempotent ==
    [][ LET p == ev'.num
            s == StatusCommentOf(comments[p])
        IN  ( /\ Handles(<<ReviewLine>>) \/ Handles(<<ReviewLine, ReviewLine>>)
              /\ In(FcpProposedLabel, labels[p])
              /\ s # 0 )
            => LET old == comments[p][s].body
                   new == comments'[p][s].body
               IN  /\ ev'.raised = "none"
                   /\ Len(ev'.calls) = Len(ev'.body)
                   /\ \A i \in 1..Len(ev'.calls) :
                         /\ ev'.calls[i].op = "edit_comment"
                         /\ ev'.calls[i].id = s
                         /\ ParseTeamVotes(ev'.calls[i].body) = ParseTeamVotes(new)
                   /\ Range(ParseTeamVotes(new)) = Range(ParseTeamVotes(old)) \cup {ev'.sender}
                   /\ Len(ParseTeamVotes(new)) = Cardinality(Range(ParseTeamVotes(new)))
                   /\ In(ev'.sender, ParseTeamVotes(old)) =>
                         ParseTeamVotes(new) = ParseTeamVotes(old)
      ]_vars

\* bob reviews twice in one comment: both renderings list him once
C14_Witness ==
    /\ Commanded(<<ReviewLine, ReviewLine>>)
    /\ ev.sender = Bob
    /\ In(FcpProposedLabel, ev.original)
    /\ Len(ev.calls) = 2
    /\ ev.calls[1].op = "edit_comment" /\ ev.calls[2].op = "edit_comment"
    /\ In(Bob, ParseTeamVotes(ev.calls[1].body))
    /\ ParseTeamVotes(ev.calls[2].body) = ParseTeamVotes(ev.calls[1].body)
    /\ Bob \in Voters(StatusBody(ev.num))

\* the texts of the concerns of a status comment
ConcernTexts(body) == {cn[1] : cn \in Range(ParseConcerns(body))}

Count(x, seq) == Cardinality({i \in 1..Len(seq) : seq[i] = x})

\* what a concern command with this text does to a proposal with a live status comment
ConcernHandled(line, text) ==
    LET p == ev'.num
        s == StatusCommentOf(comments[p])
    IN  (Handles(<<line>>) /\ s # 0)
        => LET old == comments[p][s].body
               new == comments'[p][s].body
           IN  /\ ev'.raised = "none"
               /\ UNCHANGED <<jobs, timers, store, issueState>>
               /\ text \in ConcernTexts(old) =>
                     /\ comments' = comments
                     /\ labels' = labels
                     /\ Len(ev'.calls) = 1
                     /\ ev'.calls[1].op = "create_comment"
                     /\ ev'.calls[1].body = Msg("That concern has already been raised.")
               /\ text \notin ConcernTexts(old) =>
                     /\ Range(ParseConcerns(new)) = Range(ParseConcerns(old)) \cup {<<text, FALSE>>}
                     /\ Len(ParseConcerns(new)) = Len(ParseConcerns(old)) + 1
                     /\ ParseTeamVotes(new) = ParseTeamVotes(old)
                     /\ new = RenderTemplate(Bot, DispositionText(GetDisposition(Context(p, ev'.sender))),
                                  FormatTeamVotes(roster, ParseTeamVotes(old)),
                                  FormatConcerns(Append(ParseConcerns(old), <<text, FALSE>>)))
                     /\ StatusCommentOf(comments'[p]) = s
                     /\ \A i \in 1..Len(comments[p]) : i # s => comments'[p][i] = comments[p][i]
                     /\ Len(comments'[p]) = Len(comments[p])
                     /\ CallsOf(ev', "edit_comment") # {}
                     /\ CallsOf(ev', "create_comment") = {}
                     /\ Count(UnresolvedConcernsLabel, labels'[p]) = 1
                     /\ Range(labels'[p]) = Range(labels[p]) \cup {UnresolvedConcernsLabel}

UnknownResolved(line, text) ==
    LET p == ev'.num
        s == StatusCommentOf(comments[p])
    IN  (Handles(<<line>>) /\ s # 0 /\ text \notin ConcernTexts(comments[p][s].body))
        => /\ ev'.raised = "none"
           /\ \E i \in CallsOf(ev', "create_comment") : ev'.calls[i].body = Msg("Unknown concern.")
           /\ CallsOf(ev', "edit_comment") = {}
           /\ comments'[p][s] = comments[p][s]
           /\ labels' = labels
           /\ CallsOf(ev', "set_labels") = {}
           /\ UNCHANGED <<jobs, timers, store>>

\* C16: a resolve command whose text is no concern of the live status comment
\* is answered with the unknown-concern comment, edits no comment, leaves the
\* labels as they were and starts no FCP.
C16_ResolveUnknown ==
    [][ /\ UnknownResolved(ResolveLine1, <<"typo">>)
        /\ UnknownResolved(ResolveLine2, <<"too", " ", "vague">>) ]_vars

\* what a resolve command with the text of a concern of the live status
\* comment does
KnownResolved(line, text) ==
    LET p == ev'.num
        s == StatusCommentOf(comments[p])
    IN  (Handles(<<line>>) /\ s # 0 /\ text \in ConcernTexts(comments[p][s].body))
        => LET old == comments[p][s].body
               new == comments'[p][s].body
               others == {cn \in Range(ParseConcerns(old)) : cn[1] # text}
               all_resolved == \A cn \in Range(ParseConcerns(new)) : cn[2]
               start == /\ RatioReached(new)
                        /\ all_resolved
                        /\ ~In(FcpLabel, labels[p])
           IN  /\ ev'.raised = "none"
               /\ Range(ParseConcerns(new)) = others \cup {<<text, TRUE>>}
               /\ Len(ParseConcerns(new)) = Len(ParseConcerns(old))
               /\ ParseTeamVotes(new) = ParseTeamVotes(old)
               /\ new = RenderTemplate(Bot, DispositionText(GetDisposition(Context(p, ev'.sender))),
                            FormatTeamVotes(roster, ParseTeamVotes(old)),
                            FormatConcerns([i \in 1..Len(ParseConcerns(old)) |->
                                IF ParseConcerns(old)[i][1] = text THEN <<text, TRUE>>
                                ELSE ParseConcerns(old)[i]]))
               /\ StatusCommentOf(comments'[p]) = s
               /\ CallsOf(ev', "edit_comment") # {}
               /\ \A i \in CallsOf(ev', "edit_comment") :
                     ev'.calls[i].id = s /\ ev'.calls[i].body = new
               /\ In(UnresolvedConcernsLabel, labels'[p])
                     <=> (In(UnresolvedConcernsLabel, labels[p]) /\ ~all_resolved)
               /\ start <=> CallsOf(ev', "add_job") # {}
               /\ start => /\ In(FcpLabel, labels'[p])
                           /\ ~In(FcpProposedLabel, labels'[p])
                           /\ p \in DOMAIN timers' /\ p \in DOMAIN store'
                           /\ store'[p] = now + FcpTimeDays * DaySeconds + GraceSeconds
               /\ ~start => /\ UNCHANGED <<jobs, timers, store>>
                            /\ Range(labels'[p]) \ {UnresolvedConcernsLabel}
                                 = Range(labels[p]) \ {UnresolvedConcernsLabel}

\* C17: a resolve command for a concern of the live status comment marks that
\* concern and no other resolved and renders the comment again; it removes
\* unresolved-concerns if and only if every concern is then resolved; and it
\* evaluates the automatic start on the new body, so that resolving the last
\* open concern of a proposal whose votes meet the ratio starts FCP in the
\* same event.
C17_ResolveKnown ==
    [][ /\ KnownResolved(ResolveLine1, <<"typo">>)
        /\ KnownResolved(ResolveLine2, <<"too", " ", "vague">>) ]_vars

\* the last open concern of a proposed FCP with enough votes is resolved
C17_Witness ==
    /\ Commanded(<<ResolveLine1>>)
    /\ In(FcpProposedLabel, ev.original) /\ In(UnresolvedConcernsLabel, ev.original)
    /\ Calls("edit_comment") # {}
    /\ <<<<"typo">>, TRUE>> \in Range(ParseConcerns(StatusBody(ev.num)))
    /\ ~ListsUnresolved(StatusBody(ev.num))
    /\ StartedFcp
    /\ LabelSet(ev.num) = {ProposalLabel, DispositionMergeLabel, FcpLabel}
    /\ ev.num \in DOMAIN store

\* a job of the scheduler came due for a proposal
Fires == ev'.kind = "timer"

\* C18: when a timer fires for a proposal whose labels hold a disposition, the
\* handler posts the completion comment of that disposition, removes fcp, adds
\* fcp-finished and removes the disposition label, working on the labels the
\* proposal has at that moment, and the issue is closed if and only if the
\* disposition is close.
C18_Enact ==
    [][ LET p == ev'.num
            d == DispositionOf(labels[p])
        IN  (Fires /\ d # <<>>)
            => /\ ev'.raised = "none"
               /\ Cardinality(CallsOf(ev', "create_comment")) = 1
               /\ \A i \in CallsOf(ev', "create_comment") :
                     ev'.calls[i].body = CompletionText(d)
               /\ CallsOf(ev', "edit_comment") = {}
               /\ CallsOf(ev', "set_labels") # {}
               /\ Range(labels'[p])
                     = (Range(labels[p]) \ {FcpLabel, DispositionLabelOf(d)}) \cup {FcpFinishedLabel}
               /\ issueState'[p] = IF d = <<"close">> THEN "closed" ELSE issueState[p]
               /\ (CallsOf(ev', "close_issue") # {}) <=> (d = <<"close">>)
      ]_vars

\* C19: when a timer fires for a proposal whose labels hold no disposition,
\* nothing is enacted: no comment is posted or edited, the issue state is not
\* edited, the labels of the proposal stay the same set, and the timer that
\* fired is gone from the scheduler, the timers and the database, so that the
\* enactment is not tried again.
C19_NoDisposition ==
    [][ LET p == ev'.num
        IN  (Fires /\ DispositionOf(labels[p]) = <<>>)
            => /\ ev'.raised \in {"none", "ProposalNotInFCP"}
               /\ CallsOf(ev', "create_comment") = {}
               /\ CallsOf(ev', "edit_comment") = {}
               /\ CallsOf(ev', "close_issue") = {}
               /\ CallsOf(ev', "add_job") = {}
               /\ comments' = comments
               /\ issueState' = issueState
               /\ Range(labels'[p]) = Range(labels[p])
               /\ \A i \in CallsOf(ev', "set_labels") :
                     Range(ev'.calls[i].list) = Range(labels[p])
               /\ \A j \in jobs' : j.id # ev'.id
               /\ p \notin DOMAIN timers'
               /\ p \notin DOMAIN store'
      ]_vars

\* the timer of a proposal in FCP without disposition has fired
C19_Witness ==
    /\ ev.kind = "timer"
    /\ ev.raised = "none"
    /\ DispositionOf(ev.original) = <<>>
    /\ In(FcpLabel, ev.original)
    /\ LabelSet(ev.num) = Range(ev.original)
    /\ Calls("create_comment") = {}
    /\ ev.num \notin DOMAIN store

\* C20: after every event that was processed to its end, a proposal has a
\* timer, in the timers and in the database, exactly if it carries the fcp
\* label.
C20_TimerIffFcp ==
    \A p \in Proposals :
        ev.raised = "none" =>
            /\ (p \in DOMAIN timers) <=> In(FcpLabel, labels[p])
            /\ (p \in DOMAIN store) <=> In(FcpLabel, labels[p])

\* the jobs of the scheduler that will call back for a proposal
JobsOf(p) == {j \in jobs : j.num = p}

\* C21: scheduling replaces: the only job pending for a proposal is the one
\* registered last for it, so that a registration made earlier never calls
\* back.
C21_ScheduleReplaces ==
    \A p \in Proposals :
        /\ Cardinality(JobsOf(p)) <= 1
        /\ \A j \in JobsOf(p) : p \in DOMAIN timers /\ timers[p] = j.id

\* C22: the database holds one row for a proposal, and a save overwrites:
\* after a timer was saved, the row of its proposal holds the time saved last.
C22_SaveOverwrites ==
    \A i \in Calls("db_save") :
        /\ ev.calls[i].id \in DOMAIN store
        /\ store[ev.calls[i].id] = ev.calls[i].time

\* C23: cancelling the timer of a proposal that has one leaves no job, no
\* timer and no row for the proposal; cancelling for a proposal without timer
\* raises ProposalNotInFCP and leaves the jobs, the timers and the rows as
\* they were.
C23_Cancel ==
    [][ LET p == ev'.num
        IN  ev'.kind = "cancel" =>
              /\ p \in DOMAIN timers =>
                    /\ ev'.raised = "none"
                    /\ \A j \in jobs' : j.num # p
                    /\ p \notin DOMAIN timers'
                    /\ p \notin DOMAIN store'
              /\ p \notin DOMAIN timers =>
                    /\ ev'.raised = "ProposalNotInFCP"
                    /\ UNCHANGED <<jobs, timers, store>>
      ]_vars

\* a job ran the callback: cancel_timer_for_proposal_num did not raise
CallbackInvoked(e) == e.kind = "timer" /\ e.raised # "ProposalNotInFCP"

\* C24: when a job fires, the timer of its proposal is removed from the timers
\* and from the database before the callback runs, also when the callback
\* raises; the job that fired is gone, the callback runs only for a proposal
\* that had a timer, and a process started after the firing loads no timer
\* for the proposal.
C24_FiresOnce ==
    [][ LET p == ev'.num
        IN  Fires =>
              /\ \A j \in jobs' : j.id # ev'.id
              /\ CallbackInvoked(ev') =>
                    /\ p \in DOMAIN timers
                    /\ ev'.calls # <<>>
                    /\ ev'.calls[1].op = "db_delete" /\ ev'.calls[1].id = p
                    /\ p \notin DOMAIN timers'
                    /\ p \notin DOMAIN store'
                    /\ \A j \in StartTimers([Context(p, <<>>) EXCEPT !.store = store']).jobs : j.num # p
              /\ ~CallbackInvoked(ev') => ev'.calls = <<>>
      ]_vars

\* the callback raised, and the timer is gone all the same
C24_Witness ==
    /\ ev.kind = "timer"
    /\ ev.raised = "AttributeError"
    /\ ev.num \notin DOMAIN timers
    /\ ev.num \notin DOMAIN store
    /\ JobsOf(ev.num) = {}

\* a new process has loaded the timers
Reloads == ev'.kind \in {"restart", "schedule_crash", "fire_crash"}

\* C25: a process that starts schedules every row of the database again and
\* writes none of them, and a job whose run time has passed by then runs its
\* callback: no job leaves the scheduler without having run.
C25_Reload ==
    [][ /\ Reloads =>
              /\ DOMAIN timers' = DOMAIN store'
              /\ \A p \in DOMAIN store' :
                    \E j \in jobs' : /\ j.id = timers'[p] /\ j.num = p
                                     /\ j.run_time = store'[p]
              /\ Cardinality(jobs') = Cardinality(DOMAIN store')
              /\ CallsOf(ev', "db_save") = {}
        /\ ev'.kind # "missed"
      ]_vars

\* the run time of the job registered for a proposal, if it is still pending
Registered(p) == {j \in jobs : p \in DOMAIN timers /\ j.id = timers[p]}

\* C26: a timer scheduled at T is in the database when new_timer returns; the
\* callback of a proposal never runs before the time its timer was scheduled
\* for; a process killed and started again before T holds the timer at T; and
\* a process killed before the save holds no timer for the proposal after its
\* restart.
C26_Durable ==
    [][ LET p == ev'.num
        IN  /\ ev'.kind = "schedule" =>
                  \A i \in CallsOf(ev', "db_save") :
                      p \in DOMAIN store' /\ store'[p] = ev'.calls[i].time
            /\ (Fires /\ CallbackInvoked(ev')) =>
                  \A j \in Registered(p) : j.run_time <= now
            /\ ev'.kind = "restart" =>
                  \A q \in Proposals : \A j \in Registered(q) :
                      \E k \in jobs' : k.num = q /\ k.run_time = j.run_time
            /\ (ev'.kind = "schedule_crash" /\ p \notin DOMAIN store) =>
                  /\ \A j \in jobs' : j.num # p
                  /\ p \notin DOMAIN timers' /\ p \notin DOMAIN store'
      ]_vars

\* the last event ran the callback for p, or cancelled the timer of p
Invoked(p) == CallbackInvoked(ev) /\ ev.num = p

Cancelled(p) == ev.kind = "cancel" /\ ev.num = p /\ ev.raised = "none"

\* C27: at least once: for every timer in the database, the callback of its
\* proposal is eventually invoked, unless the timer is cancelled, wherever
\* the process is killed and started again.
C27_AtLeastOnce ==
    \A p \in Proposals : (p \in DOMAIN store) ~> (Invoked(p) \/ Cancelled(p))

\* C28: an event (a comment created or edited, or a timer fired) issues at most
\* one bulk label update, and issues it only if the labels it ends with differ
\* from the labels it started with.
C28_OneLabelUpdate ==
    /\ Cardinality(CallsOf(ev, "set_labels")) <= 1
    /\ CallsOf(ev, "set_labels") # {} => ev.final # ev.original

\* C29: no update of an event is lost to another event for the same proposal:
\* once the threads are through, the status comment lists every member whose
\* review was handled up to the edit of the status comment, and a proposal
\* whose disposition the timer enacted has the finished label and not the
\* fcp label.
C29_NoLostUpdate ==
    (\A t \in Threads : threads[t].pc = "idle") =>
        \A t \in Threads, p \in Proposals :
            /\ threads[t].reviews \subseteq Voters(StatusBody(p))
            /\ threads[t].enacted =>
                  In(FcpFinishedLabel, labels[p]) /\ ~In(FcpLabel, labels[p])

\* C30: the votes parsed from the formatted vote lines are exactly the voted
\* members, and the concerns parsed from the formatted concern section are
\* exactly the given (text, resolved) pairs, in whatever order.
C30_RoundTrip ==
    codec.stage = "parsed" =>
        /\ Range(codec.votes) = codec.voted
        /\ Len(codec.votes) = Cardinality(codec.voted)
        /\ Range(codec.parsed) = Range(codec.concerns)
        /\ Len(codec.parsed) = Len(codec.concerns)

\* the concern section with the unresolved concerns first, each class in the
\* order of the list
UnresolvedFirst(concerns) ==
    IF concerns = <<>> THEN <<>>
    ELSE LET sorted == SelectSeq2(concerns, FALSE) \o SelectSeq2(concerns, TRUE)
         IN  <<<<"Concerns:">>, <<>>>> \o [i \in 1..Len(sorted) |-> ConcernLine(sorted[i])]

\* C31: the formatted concern section lists all unresolved concerns before all
\* resolved concerns, and within each class the concerns keep the order of
\* the list.
C31_UnresolvedFirst ==
    codec.stage = "formatted" => codec.concern_text = UnresolvedFirst(codec.concerns)

\* what a concern or resolve command does on a proposal without live status
\* comment
NoDocument(line) ==
    LET p == ev'.num
    IN  (Handles(<<line>>) /\ StatusCommentOf(comments[p]) = 0)
        => /\ ev'.raised = "none"
           /\ CallsOf(ev', "create_comment") # {}
           /\ CallsOf(ev', "edit_comment") = {}
           /\ comments' = comments
           /\ labels' = labels
           /\ CallsOf(ev', "set_labels") = {}
           /\ UNCHANGED <<jobs, timers, store>>

\* C32: a concern or resolve command on a proposal without live status comment
\* is answered with a comment and does nothing else: the handler returns
\* normally, no comment is edited, no label changes and no FCP starts.
C32_NoDocument ==
    [][ /\ NoDocument(ConcernLine1)
        /\ NoDocument(ResolveLine1) ]_vars

\* C33: a comment of a team member with a command that lacks its argument
\* ("@mscbot fcp") is handled without an exception.
C33_MissingArguments ==
    (ev.kind = "created" /\ ev.accepted /\ In(NoArgumentLine, ev.body)) => ev.raised = "none"

\* the login the preamble sentence of a comment names, <<>> if it has none
RECURSIVE AuthorOf(_)
AuthorOf(body) ==
    IF body = <<>> THEN <<>>
    ELSE IF StartsWith(Head(body), Preamble) /\ Len(Head(body)) > Len(Preamble)
         THEN <<Head(body)[Len(Preamble) + 1]>>
         ELSE AuthorOf(Tail(body))

\* C34: the status comment names as author the member whose "fcp
\* <disposition>" command posted it, and every later rendering of the comment
\* (review, concern, resolve, cancel) names the same member.
C34_Author ==
    [][ \A p \in Proposals : \A i \in 1..Len(comments'[p]) :
            IF i <= Len(comments[p])
            THEN AuthorOf(comments'[p][i].body) = AuthorOf(comments[p][i].body)
            ELSE AuthorOf(comments'[p][i].body) = ev'.sender ]_vars

\* the lines of a text whose first word is the handle, followed by a command
CommandLines(text) ==
    SelectSeq(text, LAMBDA l : Len(Split(l)) >= 2 /\ Head(Split(l)) = BotHandle)

\* C35: the parser returns, for every text, one pair per line whose first word
\* is the handle of the bot, in the order of the lines: the second word and
\* the words after it (no pair for a line with the handle alone); every other
\* line contributes nothing.
C35_Parser ==
    parser.stage = "parsed" =>
        /\ ~parser.raised
        /\ parser.commands =
              [i \in 1..Len(CommandLines(parser.text)) |->
                  LET words == Split(CommandLines(parser.text)[i])
                  IN  <<words[2], SubSeq(words, 3, Len(words))>>]

\* C36: the steps of an event change nothing of another proposal: the labels
\* and the comments of every proposal but the event's own stay as they are,
\* and the calls of the step go to the event's own proposal.
C36_OwnProposal ==
    [][ \A t \in Threads :
            threads'[t] # threads[t] =>
                /\ \A q \in DOMAIN labels \ {threads'[t].num} :
                      labels'[q] = labels[q] /\ comments'[q] = comments[q]
                /\ ev'.calls # <<>> => ev'.num = threads'[t].num ]_vars

\* C37: a proposal carries the unresolved-concerns label exactly when its live
\* status comment lists an unresolved concern.
C37_ConcernsLabel ==
    \A p \in Proposals :
        In(UnresolvedConcernsLabel, labels[p])
            <=> (StatusCommentOf(comments[p]) # 0 /\ ListsUnresolved(StatusBody(p)))

\* the latest status comment of the proposal carries the cancel notice and no
\* new proposal was made since
CancelledProposal(p) ==
    /\ comments[p] # <<>>
    /\ Len(Posted(comments[p])) >= 2
    /\ SubSeq(Posted(comments[p]), 1, 2) = CancelNotice
    /\ ~In(FcpProposedLabel, labels[p])
    /\ ~In(FcpLabel, labels[p])

\* C38: after a proposal was cancelled in fcp-proposed state and before the
\* next "fcp <disposition>", a concern or resolve command or the edit of a
\* comment edits no status comment and starts no FCP.
C38_NoLiveDocument ==
    [][ \A p \in Proposals :
            ( /\ CancelledProposal(p)
              /\ ev'.num = p
              /\ \/ ev'.kind = "edited"
                 \/ ev'.kind = "created"
                    /\ ev'.body \in {<<ConcernLine1>>, <<ResolveLine1>>} )
            => /\ CallsOf(ev', "edit_comment") = {}
               /\ CallsOf(ev', "add_job") = {} ]_vars

\* a job of the proposal is scheduled for a time the clock of the runs does
\* not reach
BeyondHorizon(p) == \E j \in jobs : j.num = p /\ j.run_time > MaxTime

DuplicateFree(list) ==
    \A i, k \in 1..Len(list) : list[i] = list[k] => i = k

\* C40: the list of a bulk label update never holds the same label twice.
C40_DuplicateFree ==
    \A i \in 1..Len(ev.calls) :
        ev.calls[i].op = "set_labels" => DuplicateFree(ev.calls[i].list)

====
